---- MODULE Spec2Model ----
(***************************************************************************)
(* Green Wave (src/game.js): the simulation core of the traffic-light      *)
(* driving game -- frame loop, car physics, traffic-light cycle, pass/fail *)
(* rules, level progression, session and best-time bookkeeping.            *)
(*                                                                         *)
(* Numbers.  The program computes in IEEE doubles; the model computes in   *)
(* exact fixed point.  With U units per second:                            *)
(*   time, durations, timestamps : 1/U s          (U = 20: 0.05 s)         *)
(*   speeds                      : 1/U km/h                                *)
(*   positions                   : 1/(U*U) px                              *)
(* so that `carSpeed += ACCELERATION * deltaTime' and                      *)
(* `carWorldX += carSpeed * 3 * deltaTime' are the source's own formulas   *)
(* on the scaled integers.  Rounding error of the doubles is not modelled. *)
(***************************************************************************)
EXTENDS Integers, Sequences, FiniteSets, TLC

\* Units per second / per km/h (resolution of the fixed point; 1/U s = 0.05 s).
U == 4 * 5

Kmh(v) == v * U
Px(p) == p * U * U
\* A duration given in tenths of a second.
Tenths(t) == (t * U) \div 10

(***************************************************************************)
(* Program constants (src/game.js:208-227, 873-901, 1960).                 *)
(***************************************************************************)
CAR_WIDTH == 100
MAX_SPEED == 120
ACCELERATION == 40
BRAKE_POWER == 60
FRICTION == 5
PIXELS_PER_KMH == 3
YELLOW_BEFORE_GREEN == Tenths(10)
YELLOW_AFTER_GREEN == Tenths(15)
\* gameLoop skips a frame whose delta is greater than 0.1 s.
SKIP_THRESHOLD == Tenths(1)

(***************************************************************************)
(* Bounds of the model.                                                    *)
(***************************************************************************)
\* Frames are generated while the frame's timestamp is at most this (1/U s).
MaxTimestamp == 13

\* The deltas between two animation frames (1/U s): 0.1 s is simulated,
\* 0.15 s and 0.5 s are above the threshold.
FrameDeltas == {2, 3, 10}
\* The timestamp of the first animation frame (any positive number).
FirstStamps == {1}

\* The function checks: game times 0..MaxProbeTime (more than the longest
\* probed cycle, 6.5 s) and shifts of up to MaxShift whole cycles either way.
MaxProbeTime == 140
MaxShift == 2

\* The full-throttle run of level 1: frames are generated while the frame's
\* timestamp is at most this (1/U s; 3.6 s of game time).
MaxScenarioStamp == 73

\* The star rating is checked for accumulated speed changes 0..MaxStarChange
\* (1/U km/h; 65 km/h).
MaxStarChange == 1300

\* The tick probe tries frame deltas 0..MaxProbeDelta (0.05 s units).
MaxProbeDelta == 3

\* The last frame stamp of the fine-grained frames (0.05 s units).
MaxFineStamp == 10

\* The longest session of the session probe, in levels.
MaxSessionLevels == 11

Phases == {"red", "yellow", "green", "blinking-yellow"}
GameStates == {"playing", "won", "lost", "ending"}

(***************************************************************************)
(* Level catalogs.  A level is [startSpeed, lights, finishX]; a light      *)
(* config is [x, greenDuration, redDuration, offset] (name is display      *)
(* only).  Light positions strictly increase and finishX exceeds the last. *)
(***************************************************************************)
Light(x, g, r, o) == [x |-> x, greenDuration |-> g, redDuration |-> r, offset |-> o]

\* Level 1 of the game's catalog: "First light".
ReferenceLevel1 ==
    [startSpeed |-> Kmh(40),
     lights |-> << Light(Px(600), Tenths(40), Tenths(20), 0) >>,
     finishX |-> Px(900)]

\* Level 2 of the game's catalog: "Easy start".
ReferenceLevel2 ==
    [startSpeed |-> Kmh(40),
     lights |-> << Light(Px(500), Tenths(35), Tenths(20), 0),
                   Light(Px(1000), Tenths(35), Tenths(20), Tenths(15)) >>,
     finishX |-> Px(1300)]

\* The first two levels of the game's catalog.
ReferenceCatalog == << ReferenceLevel1, ReferenceLevel2 >>

\* A catalog of the same shape with short distances and short phases, so that
\* stops, the speed cap, crossings in every phase, wins and a whole session all
\* happen within MaxTimestamp (every red and green phase lasts 0.1 s).
\*   level 1 (slow): 6.25 km/h, one light at 1 px, finish at 2.5 px.  The
\*     bumper starts at 50 px, beyond the light: the attempt's first tick
\*     crosses it, in its blinking-yellow phase.
\*   level 2 (fast): 118 km/h, lights at 84, 85.5 and 85.75 px, finish at
\*     86 px.  At 0.1 s they are green, red, yellow; at 0.2 s blinking yellow,
\*     yellow, green.  One 0.1 s tick under throttle carries the bumper from
\*     50 px over all three; coasting over the first only; braking over none.
TestCatalog ==
    << [startSpeed |-> 125,
        lights |-> << Light(Px(1), 2, 2, 50) >>,
        finishX |-> 1000],
       [startSpeed |-> Kmh(118),
        lights |-> << Light(Px(84), 2, 2, 20), Light(Px(85) + 200, 2, 2, 52),
                      Light(Px(85) + 300, 2, 2, 18) >>,
        finishX |-> Px(86)] >>

\* A catalog of three levels, so that a level that is neither the first nor
\* the last can be replayed: the slow level of TestCatalog, then two levels
\* started at 10 and 12 km/h (one light at 1 px, finish at 2.5 px and 3 px).
ThreeLevels ==
    << TestCatalog[1],
       [startSpeed |-> Kmh(10),
        lights |-> << Light(Px(1), 2, 2, 50) >>,
        finishX |-> 1000],
       [startSpeed |-> Kmh(12),
        lights |-> << Light(Px(1), 2, 2, 50) >>,
        finishX |-> Px(3)] >>

\* A catalog whose first level has all its lights between the car's centre
\* and its front bumper at the start, and its finish line one tick away:
\* 118 km/h, lights at 10, 20 and 30 px, finish at 35 px.  At 0 s the lights
\* are green, blinking yellow, green; at 0.1 s blinking yellow, red, blinking
\* yellow.  A restarted attempt's first tick of 0.1 s carries the car past
\* the finish line while its bumper is over all three lights.  The second
\* level is the fast level of TestCatalog.
OrderCatalog ==
    << [startSpeed |-> Kmh(118),
        lights |-> << Light(Px(10), 2, 2, 22), Light(Px(20), 2, 2, 52),
                      Light(Px(30), 2, 2, 22) >>,
        finishX |-> Px(35)],
       TestCatalog[2] >>

VARIABLES
    levels,            \* the level catalog (immutable after load)
    firebaseAvailable, \* firebase-config.js: whether the leaderboard backend initialised
    storageAvailable,  \* whether localStorage works (else every getItem and setItem throws)
    gameStarted,       \* the start button was clicked, the frame loop runs
    gameState,         \* 'playing' | 'won' | 'lost' | 'ending'
    currentLevel,
    carSpeed,
    carWorldX,
    lightsPassed,
    trafficLights,     \* runtime lights: the config plus passed
    keys,              \* [gas, brake]
    totalSpeedChange,
    lastSpeed,
    gameSession,       \* [active, levels: <<[level, time, stars, smoothness]>>]
    gameTime,
    lastTimestamp,
    bestTimes,         \* localStorage best times: level -> time, 0 when absent
    wonTimes,          \* history: level -> the finish times of its Won attempts
    message,           \* the message box's button: "hidden" | "retry" | "next"
    prompt,            \* the username prompt: [open, totalTime, avgStars] of its callbacks
    inflight,          \* leaderboard submissions awaiting their result
    submitted,         \* the payloads passed to submitFullGameToLeaderboard
    lastFrame,         \* what the last animation frame did
    probe              \* a pure function's arguments and results (function checks only)

vars == << levels, firebaseAvailable, storageAvailable, gameStarted, gameState, currentLevel, carSpeed,
           carWorldX, lightsPassed, trafficLights, keys, totalSpeedChange, lastSpeed,
           gameSession, gameTime, lastTimestamp, bestTimes, wonTimes, message, prompt,
           inflight, submitted, lastFrame, probe >>

\* The catalog, the collaborators' availability and the probe: written by no handler.
fixed == << levels, firebaseAvailable, storageAvailable, probe >>

\* The attempt state written by initLevel and update.
attempt == << gameState, carSpeed, carWorldX, lightsPassed, trafficLights,
              totalSpeedChange, lastSpeed, gameTime >>

(***************************************************************************)
(* Pure helpers.                                                           *)
(***************************************************************************)
Min(a, b) == IF a < b THEN a ELSE b
Max(a, b) == IF a > b THEN a ELSE b
Abs(a) == IF a < 0 THEN -a ELSE a

\* JavaScript's % : the remainder takes the sign of the dividend.
JsRem(a, b) == IF a >= 0 THEN a % b ELSE -((-a) % b)

\* Number.prototype.toFixed(1) followed by parseFloat, on a value in 1/U units:
\* the nearest tenth (ties upward), still in 1/U units.
ToFixed1(v) == ((v * 20 + U) \div (2 * U)) * (U \div 10)

CycleDuration(light) ==
    light.redDuration + YELLOW_BEFORE_GREEN + light.greenDuration + YELLOW_AFTER_GREEN

\* Mutant of getLightState: no yellow before green, red lasts until green.
getLightStateNoYellow(light, time) ==
    LET cycleDuration == CycleDuration(light)
        adjustedTime == JsRem(time + light.offset, cycleDuration)
        redEnd == light.redDuration
        yellowBeforeEnd == redEnd + YELLOW_BEFORE_GREEN
        greenEnd == yellowBeforeEnd + light.greenDuration
    IN  IF adjustedTime < yellowBeforeEnd THEN "red"
        ELSE IF adjustedTime < greenEnd THEN "green"
        ELSE "blinking-yellow"

\* Mutant of getLightState: green comes before yellow.
getLightStateGreenFirst(light, time) ==
    LET cycleDuration == CycleDuration(light)
        adjustedTime == JsRem(time + light.offset, cycleDuration)
        redEnd == light.redDuration
        greenEnd == redEnd + light.greenDuration
        yellowEnd == greenEnd + YELLOW_BEFORE_GREEN
    IN  IF adjustedTime < redEnd THEN "red"
        ELSE IF adjustedTime < greenEnd THEN "green"
        ELSE IF adjustedTime < yellowEnd THEN "yellow"
        ELSE "blinking-yellow"

\* Mutant of getLightState: the red interval closed at its end.
getLightStateClosedRed(light, time) ==
    LET cycleDuration == CycleDuration(light)
        adjustedTime == JsRem(time + light.offset, cycleDuration)
        redEnd == light.redDuration
        yellowBeforeEnd == redEnd + YELLOW_BEFORE_GREEN
        greenEnd == yellowBeforeEnd + light.greenDuration
    IN  IF adjustedTime <= redEnd THEN "red"
        ELSE IF adjustedTime < yellowBeforeEnd THEN "yellow"
        ELSE IF adjustedTime < greenEnd THEN "green"
        ELSE "blinking-yellow"

\* getLightState (src/game.js:428-447).
getLightState(light, time) ==
    LET cycleDuration == CycleDuration(light)
        adjustedTime == JsRem(time + light.offset, cycleDuration)
        redEnd == light.redDuration
        yellowBeforeEnd == redEnd + YELLOW_BEFORE_GREEN
        greenEnd == yellowBeforeEnd + light.greenDuration
    IN  IF adjustedTime < redEnd THEN "red"
        ELSE IF adjustedTime < yellowBeforeEnd THEN "yellow"
        ELSE IF adjustedTime < greenEnd THEN "green"
        ELSE "blinking-yellow"

\* Mutant of getTimeUntilChange: the light's offset is left out.
getTimeUntilChangeNoOffset(light, time) ==
    LET cycleDuration == CycleDuration(light)
        adjustedTime == JsRem(time, cycleDuration)
        redEnd == light.redDuration
        yellowBeforeEnd == redEnd + YELLOW_BEFORE_GREEN
        greenEnd == yellowBeforeEnd + light.greenDuration
    IN  IF adjustedTime < redEnd THEN redEnd - adjustedTime
        ELSE IF adjustedTime < yellowBeforeEnd THEN yellowBeforeEnd - adjustedTime
        ELSE IF adjustedTime < greenEnd THEN greenEnd - adjustedTime
        ELSE cycleDuration - adjustedTime

\* getTimeUntilChange (src/game.js:450-468).
getTimeUntilChange(light, time) ==
    LET cycleDuration == CycleDuration(light)
        adjustedTime == JsRem(time + light.offset, cycleDuration)
        redEnd == light.redDuration
        yellowBeforeEnd == redEnd + YELLOW_BEFORE_GREEN
        greenEnd == yellowBeforeEnd + light.greenDuration
    IN  IF adjustedTime < redEnd THEN redEnd - adjustedTime
        ELSE IF adjustedTime < yellowBeforeEnd THEN yellowBeforeEnd - adjustedTime
        ELSE IF adjustedTime < greenEnd THEN greenEnd - adjustedTime
        ELSE cycleDuration - adjustedTime

\* getCurrentPhaseDuration (src/game.js:471-480).
getCurrentPhaseDuration(light, time) ==
    LET state == getLightState(light, time)
    IN  CASE state = "red" -> light.redDuration
          [] state = "yellow" -> YELLOW_BEFORE_GREEN
          [] state = "green" -> light.greenDuration
          [] state = "blinking-yellow" -> YELLOW_AFTER_GREEN
          [] OTHER -> U

\* Mutant of calculateStars: the three-star threshold is inclusive.
calculateStarsInclusive(speedChange, levelDistance) ==
    IF speedChange * 100 * U <= 20 * levelDistance THEN 3
    ELSE IF speedChange * 100 * U < 50 * levelDistance THEN 2
    ELSE 1

\* Mutant of calculateStars: the speed change is not normalised by the distance.
calculateStarsUnnormalized(speedChange, levelDistance) ==
    IF speedChange < Kmh(20) THEN 3
    ELSE IF speedChange < Kmh(50) THEN 2
    ELSE 1

\* calculateStars (src/game.js:183-199): speedChange / (levelDistance / 100)
\* against 20 and 50, cross-multiplied (speedChange in 1/U km/h, levelDistance
\* in 1/(U*U) px, levelDistance > 0).
calculateStars(speedChange, levelDistance) ==
    IF speedChange * 100 * U < 20 * levelDistance THEN 3
    ELSE IF speedChange * 100 * U < 50 * levelDistance THEN 2
    ELSE 1

\* Mutant of SpeedStep: the upper clamp is missing.
SpeedStepNoCap(speed, k, deltaTime) ==
    LET raw == IF k.gas /\ ~k.brake THEN speed + ACCELERATION * deltaTime
               ELSE IF k.brake /\ ~k.gas THEN speed - BRAKE_POWER * deltaTime
               ELSE speed - FRICTION * deltaTime
    IN  Max(0, raw)

\* Mutant of SpeedStep: the lower clamp is missing.
SpeedStepNoFloor(speed, k, deltaTime) ==
    LET raw == IF k.gas /\ ~k.brake THEN speed + ACCELERATION * deltaTime
               ELSE IF k.brake /\ ~k.gas THEN speed - BRAKE_POWER * deltaTime
               ELSE speed - FRICTION * deltaTime
    IN  Min(Kmh(MAX_SPEED), raw)

\* update, the speed step and the clamp (src/game.js:875-886).
SpeedStep(speed, k, deltaTime) ==
    LET raw == IF k.gas /\ ~k.brake THEN speed + ACCELERATION * deltaTime
               ELSE IF k.brake /\ ~k.gas THEN speed - BRAKE_POWER * deltaTime
               ELSE speed - FRICTION * deltaTime
    IN  Max(0, Min(Kmh(MAX_SPEED), raw))

\* update, the smoothness accumulator (src/game.js:888-892).
SpeedChangeStep(total, speed, last, k) ==
    IF k.gas \/ k.brake THEN total + Abs(speed - last) ELSE total

\* Mutant of Stopped: the throttle is not looked at.
StoppedAnyPedal(speed, k) == speed = 0

\* update, the stop check (src/game.js:894-898).
Stopped(speed, k) == speed = 0 /\ ~k.gas

\* Mutant of RanRed: blinking yellow fails too.
RanRedOrBlinking(light, time) ==
    getLightState(light, time) \in {"red", "blinking-yellow"}

\* update, the red-light test of a crossed light (src/game.js:920-921).
RanRed(light, time) == getLightState(light, time) = "red"

\* Mutant of CheckLights: the loop ends at the first light it marks.
RECURSIVE CheckLightsBreak(_, _, _, _, _)
CheckLightsBreak(lights, i, carFront, time, count) ==
    IF i > Len(lights) THEN [lights |-> lights, count |-> count, red |-> FALSE]
    ELSE LET light == lights[i]
         IN  IF ~light.passed /\ carFront > light.x
             THEN IF RanRed(light, time)
                  THEN [lights |-> lights, count |-> count, red |-> TRUE]
                  ELSE [lights |-> [lights EXCEPT ![i].passed = TRUE],
                        count |-> count + 1, red |-> FALSE]
             ELSE CheckLightsBreak(lights, i + 1, carFront, time, count)

\* Mutant of CheckLights: a light already passed is looked at again.
RECURSIVE CheckLightsNoPassedGuard(_, _, _, _, _)
CheckLightsNoPassedGuard(lights, i, carFront, time, count) ==
    IF i > Len(lights) THEN [lights |-> lights, count |-> count, red |-> FALSE]
    ELSE LET light == lights[i]
         IN  IF carFront > light.x
             THEN IF RanRed(light, time)
                  THEN [lights |-> lights, count |-> count, red |-> TRUE]
                  ELSE CheckLightsNoPassedGuard([lights EXCEPT ![i].passed = TRUE], i + 1,
                                                carFront, time, count + 1)
             ELSE CheckLightsNoPassedGuard(lights, i + 1, carFront, time, count)

\* Mutant of CheckLights: a red light is recorded but the loop goes on.
RECURSIVE CheckLightsContinue(_, _, _, _, _)
CheckLightsContinue(lights, i, carFront, time, count) ==
    IF i > Len(lights) THEN [lights |-> lights, count |-> count, red |-> FALSE]
    ELSE LET light == lights[i]
         IN  IF ~light.passed /\ carFront > light.x
             THEN IF RanRed(light, time)
                  THEN [CheckLightsContinue(lights, i + 1, carFront, time, count)
                           EXCEPT !.red = TRUE]
                  ELSE CheckLightsContinue([lights EXCEPT ![i].passed = TRUE], i + 1,
                                           carFront, time, count + 1)
             ELSE CheckLightsContinue(lights, i + 1, carFront, time, count)

\* update, the loop over the traffic lights (src/game.js:914-929), from light i
\* on: the lights with their passed flags, the number newly passed and whether
\* the loop returned on a red light.
RECURSIVE CheckLights(_, _, _, _, _)
CheckLights(lights, i, carFront, time, count) ==
    IF i > Len(lights) THEN [lights |-> lights, count |-> count, red |-> FALSE]
    ELSE LET light == lights[i]
         IN  IF ~light.passed /\ carFront > light.x
             THEN IF RanRed(light, time)
                  THEN [lights |-> lights, count |-> count, red |-> TRUE]
                  ELSE CheckLights([lights EXCEPT ![i].passed = TRUE], i + 1,
                                   carFront, time, count + 1)
             ELSE CheckLights(lights, i + 1, carFront, time, count)

(***************************************************************************)
(* Session and best times (src/game.js:64-85, 243-287).                    *)
(***************************************************************************)
NoSession == [active |-> FALSE, levels |-> << >>]

\* startGameSession (startTime is never read).
startGameSession == [active |-> TRUE, levels |-> << >>]

\* Mutant of addLevelToSession: time and smoothness are stored as they are.
addLevelToSessionRaw(session, level, time, stars, smoothness) ==
    IF session.active
    THEN [session EXCEPT !.levels = Append(@,
             [level |-> level, time |-> time, stars |-> stars,
              smoothness |-> smoothness])]
    ELSE session

addLevelToSession(session, level, time, stars, smoothness) ==
    IF session.active
    THEN [session EXCEPT !.levels = Append(@,
             [level |-> level, time |-> ToFixed1(time), stars |-> stars,
              smoothness |-> ToFixed1(smoothness)])]
    ELSE session

isSessionComplete(session) ==
    session.active /\ Len(session.levels) = Len(levels)

RECURSIVE SumField(_, _)
SumField(entries, f) ==
    IF entries = << >> THEN 0 ELSE entries[1][f] + SumField(Tail(entries), f)

\* Mutant of getSessionTotalTime: only the last entry's time.
getSessionTotalTimeLast(session) ==
    IF session.levels = << >> THEN 0 ELSE session.levels[Len(session.levels)].time

getSessionTotalTime(session) == SumField(session.levels, "time")

\* getSessionAverageStars: the mean to one decimal, in tenths of a star.
getSessionAverageStars(session) ==
    LET totalStars == SumField(session.levels, "stars")
        n == Len(session.levels)
    IN  (totalStars * 20 + n) \div (2 * n)

\* proceedAfterWin and the leaderboard list: the number of filled glyphs of the
\* session's average, Math.round of the one-decimal average (in tenths).
AverageStarGlyphs(avgStars) == (avgStars + 5) \div 10

\* getBestTimes: the stored times, or none when localStorage throws.
getBestTimes(best) ==
    IF storageAvailable THEN best ELSE [l \in DOMAIN best |-> 0]

\* localStorage.setItem inside try/catch: a failed write changes nothing.
setBestTimes(best, new) == IF storageAvailable THEN new ELSE best

\* Mutant of saveBestTime: every win overwrites the stored time.
saveBestTimeAlways(best, level, time) ==
    setBestTimes(best, [getBestTimes(best) EXCEPT ![level] = time])

\* saveBestTime: the stored times after a win (a stored 0 reads as absent).
saveBestTime(best, level, time) ==
    LET stored == getBestTimes(best)
    IN  IF stored[level] = 0 \/ time < stored[level]
        THEN setBestTimes(best, [stored EXCEPT ![level] = time])
        ELSE best

(***************************************************************************)
(* The state when the scripts have loaded (src/game.js:230-243, 866-867,   *)
(* 1985; firebase-config.js:16-28).                                        *)
(***************************************************************************)
NoKeys == [gas |-> FALSE, brake |-> FALSE]
NoPrompt == [open |-> FALSE, totalTime |-> 0, avgStars |-> 0]
NoMessage == [button |-> "hidden", text |-> ""]
NoProbe == [op |-> "none"]

Loaded(catalog) ==
    /\ levels = catalog
    /\ firebaseAvailable \in BOOLEAN
    /\ storageAvailable \in BOOLEAN
    /\ gameStarted = FALSE
    /\ gameState = "playing"
    /\ currentLevel = 1
    /\ carSpeed = Kmh(50)
    /\ carWorldX = 0
    /\ lightsPassed = 0
    /\ trafficLights = << >>
    /\ keys = NoKeys
    /\ totalSpeedChange = 0
    /\ lastSpeed = 0
    /\ gameSession = NoSession
    /\ gameTime = 0
    /\ lastTimestamp = 0
    /\ bestTimes = [l \in 1..Len(catalog) |-> 0]
    /\ wonTimes = [l \in 1..Len(catalog) |-> {}]
    /\ message = NoMessage
    /\ prompt = NoPrompt
    /\ inflight = 0
    /\ submitted = << >>
    /\ lastFrame = "none"
    /\ probe = NoProbe

Init == Loaded(TestCatalog)

(***************************************************************************)
(* initLevel (src/game.js:383-424).  Writes currentLevel, the attempt      *)
(* state, the session (level 1 only) and hides the message box.            *)
(***************************************************************************)
ClampLevel(levelNum) == IF levelNum > Len(levels) THEN Len(levels) ELSE levelNum

RuntimeLights(level) ==
    [i \in 1..Len(level.lights) |->
        [x |-> level.lights[i].x,
         greenDuration |-> level.lights[i].greenDuration,
         redDuration |-> level.lights[i].redDuration,
         offset |-> level.lights[i].offset,
         passed |-> FALSE]]

\* Mutant of initLevel: the smoothness accumulator is not reset.
initLevelKeepsSmoothness(levelNum) ==
    LET n == ClampLevel(levelNum)
        level == levels[n]
    IN  /\ currentLevel' = n
        /\ carSpeed' = level.startSpeed
        /\ carWorldX' = 0
        /\ lightsPassed' = 0
        /\ gameState' = "playing"
        /\ gameTime' = 0
        /\ UNCHANGED totalSpeedChange
        /\ lastSpeed' = level.startSpeed
        /\ gameSession' = IF n = 1 THEN startGameSession ELSE gameSession
        /\ trafficLights' = RuntimeLights(level)
        /\ message' = NoMessage

\* Mutant of initLevel: every level start begins a new session.
initLevelAlwaysStartsSession(levelNum) ==
    LET n == ClampLevel(levelNum)
        level == levels[n]
    IN  /\ currentLevel' = n
        /\ carSpeed' = level.startSpeed
        /\ carWorldX' = 0
        /\ lightsPassed' = 0
        /\ gameState' = "playing"
        /\ gameTime' = 0
        /\ totalSpeedChange' = 0
        /\ lastSpeed' = level.startSpeed
        /\ gameSession' = startGameSession
        /\ trafficLights' = RuntimeLights(level)
        /\ message' = NoMessage

initLevel(levelNum) ==
    LET n == ClampLevel(levelNum)
        level == levels[n]
    IN  /\ currentLevel' = n
        /\ carSpeed' = level.startSpeed
        /\ carWorldX' = 0
        /\ lightsPassed' = 0
        /\ gameState' = "playing"
        /\ gameTime' = 0
        /\ totalSpeedChange' = 0
        /\ lastSpeed' = level.startSpeed
        /\ gameSession' = IF n = 1 THEN startGameSession ELSE gameSession
        /\ trafficLights' = RuntimeLights(level)
        /\ message' = NoMessage

(***************************************************************************)
(* Input handlers (src/game.js:511-595).                                   *)
(***************************************************************************)
\* keydown / touchstart / mousedown on a pedal.
PedalDown(pedal) ==
    /\ keys' = [keys EXCEPT ![pedal] = TRUE]
    /\ UNCHANGED << fixed, gameStarted, currentLevel, attempt,
                    gameSession, lastTimestamp, bestTimes, wonTimes, message, prompt, inflight,
                    submitted, lastFrame >>

\* keyup / touchend / mouseup / mouseleave on a pedal.
PedalUp(pedal) ==
    /\ keys' = [keys EXCEPT ![pedal] = FALSE]
    /\ UNCHANGED << fixed, gameStarted, currentLevel, attempt,
                    gameSession, lastTimestamp, bestTimes, wonTimes, message, prompt, inflight,
                    submitted, lastFrame >>

\* Mutant of Restart: the restart releases the pedals.
RestartReleasesPedals ==
    /\ initLevel(currentLevel)
    /\ keys' = NoKeys
    /\ UNCHANGED << fixed, gameStarted, lastTimestamp,
                    bestTimes, wonTimes, prompt, inflight, submitted, lastFrame >>

\* The R key or the restart button: initLevel(currentLevel).
Restart ==
    /\ initLevel(currentLevel)
    /\ UNCHANGED << fixed, gameStarted, keys, lastTimestamp,
                    bestTimes, wonTimes, prompt, inflight, submitted, lastFrame >>

\* The E key (debug): preview the ending animation.
DebugEnding ==
    /\ gameState' = "ending"
    /\ UNCHANGED << fixed, gameStarted, currentLevel, carSpeed,
                    carWorldX, lightsPassed, trafficLights, keys, totalSpeedChange,
                    lastSpeed, gameSession, gameTime, lastTimestamp, bestTimes, wonTimes, message,
                    prompt, inflight, submitted, lastFrame >>

\* Mutant of MessageButton: 'Try again' moves on to the next level too.
MessageButtonAlwaysNext ==
    /\ message.button # "hidden"
    /\ initLevel(currentLevel + 1)
    /\ UNCHANGED << fixed, gameStarted, keys, lastTimestamp,
                    bestTimes, wonTimes, prompt, inflight, submitted, lastFrame >>

\* The message box's button, as set by showMessage: 'Try again' runs
\* initLevel(currentLevel), 'Next level' runs initLevel(currentLevel + 1).
MessageButton ==
    /\ message.button # "hidden"
    /\ initLevel(IF message.button = "next" THEN currentLevel + 1 ELSE currentLevel)
    /\ UNCHANGED << fixed, gameStarted, keys, lastTimestamp,
                    bestTimes, wonTimes, prompt, inflight, submitted, lastFrame >>

\* The start button (src/game.js:1994-2006): initLevel(1), or the ending
\* animation when the page was opened with ?ending; the frame loop starts.
StartGame(skipToEnding) ==
    /\ ~gameStarted
    /\ gameStarted' = TRUE
    /\ IF skipToEnding
       THEN /\ gameState' = "ending"
            /\ UNCHANGED << currentLevel, carSpeed, carWorldX, lightsPassed,
                            trafficLights, totalSpeedChange, lastSpeed, gameSession,
                            gameTime, message >>
       ELSE initLevel(1)
    /\ UNCHANGED << fixed, keys, lastTimestamp, bestTimes, wonTimes, prompt,
                    inflight, submitted, lastFrame >>

(***************************************************************************)
(* Game over (src/game.js:762-863).                                        *)
(***************************************************************************)
\* loseGame(reason): the state and the 'Try again' message.
loseGame(reason) ==
    /\ gameState' = "lost"
    /\ message' = [button |-> "retry", text |-> reason]

\* proceedAfterWin, run with gameState st and session sess: on the last level
\* the ending animation starts and the session is reset, otherwise the
\* 'Next level' message is shown (with a note when the score was stored).
proceedAfterWin(st, sess, wasSubmitted) ==
    IF currentLevel >= Len(levels)
    THEN /\ gameState' = "ending"
         /\ message' = NoMessage
         /\ gameSession' = NoSession
    ELSE /\ gameState' = st
         /\ message' = [button |-> "next",
                        text |-> IF wasSubmitted
                                 THEN "Level complete! Score submitted to leaderboard!"
                                 ELSE "Level complete!"]
         /\ gameSession' = sess

\* Mutant of winLevel: a store that throws is not caught; winLevel ends right
\* after setting the state.
winLevelStoreThrows(finishTime, total) ==
    LET level == levels[currentLevel]
        stars == calculateStars(total, level.finishX)
        sess == addLevelToSession(gameSession, currentLevel, finishTime, stars, total)
    IN  /\ wonTimes' = [wonTimes EXCEPT ![currentLevel] = @ \cup {finishTime}]
        /\ IF ~storageAvailable
           THEN /\ gameState' = "won"
                /\ UNCHANGED << bestTimes, gameSession, message, prompt >>
           ELSE /\ bestTimes' = saveBestTime(bestTimes, currentLevel, finishTime)
                /\ IF isSessionComplete(sess) /\ firebaseAvailable
                   THEN /\ prompt' = [open |-> TRUE,
                                      totalTime |-> getSessionTotalTime(sess),
                                      avgStars |-> getSessionAverageStars(sess)]
                        /\ gameState' = "won"
                        /\ gameSession' = sess
                        /\ UNCHANGED message
                   ELSE /\ proceedAfterWin("won", sess, FALSE)
                        /\ UNCHANGED prompt

\* winLevel, called by update at game time finishTime with smoothness total:
\* best time, stars, session entry, then the username prompt (a complete
\* session with the leaderboard available) or proceedAfterWin at once.
winLevel(finishTime, total) ==
    LET level == levels[currentLevel]
        stars == calculateStars(total, level.finishX)
        sess == addLevelToSession(gameSession, currentLevel, finishTime, stars, total)
    IN  /\ bestTimes' = saveBestTime(bestTimes, currentLevel, finishTime)
        /\ wonTimes' = [wonTimes EXCEPT ![currentLevel] = @ \cup {finishTime}]
        /\ IF isSessionComplete(sess) /\ firebaseAvailable
           THEN /\ prompt' = [open |-> TRUE,
                              totalTime |-> getSessionTotalTime(sess),
                              avgStars |-> getSessionAverageStars(sess)]
                /\ gameState' = "won"
                /\ gameSession' = sess
                /\ UNCHANGED message
           ELSE /\ proceedAfterWin("won", sess, FALSE)
                /\ UNCHANGED prompt

(***************************************************************************)
(* update(deltaTime) (src/game.js:870-945), for gameState = 'playing'.     *)
(***************************************************************************)
CarFront(x) == x + Px(CAR_WIDTH) \div 2

\* update's body, reading the pedals k.
Tick(k, deltaTime) ==
    LET time1 == gameTime + deltaTime
        speed1 == SpeedStep(carSpeed, k, deltaTime)
        total1 == SpeedChangeStep(totalSpeedChange, speed1, lastSpeed, k)
        x1 == carWorldX + speed1 * PIXELS_PER_KMH * deltaTime
        chk == CheckLights(trafficLights, 1, CarFront(x1), time1, 0)
        level == levels[currentLevel]
    IN  /\ gameTime' = time1
        /\ carSpeed' = speed1
        /\ totalSpeedChange' = total1
        /\ lastSpeed' = speed1
        /\ IF Stopped(speed1, k)
           THEN /\ loseGame("You stopped!")
                /\ lastFrame' = "stopped"
                /\ UNCHANGED << carWorldX, trafficLights, lightsPassed, gameSession,
                                bestTimes, wonTimes, prompt >>
           ELSE /\ carWorldX' = x1
                /\ trafficLights' = chk.lights
                /\ lightsPassed' = lightsPassed + chk.count
                /\ IF chk.red
                   THEN /\ loseGame("You ran a red light!")
                        /\ lastFrame' = "red"
                        /\ UNCHANGED << gameSession, bestTimes, wonTimes, prompt >>
                   ELSE IF x1 > level.finishX
                   THEN /\ winLevel(time1, total1)
                        /\ lastFrame' = "won"
                   ELSE /\ lastFrame' = "tick"
                        /\ UNCHANGED << gameState, message, gameSession, bestTimes, wonTimes,
                                        prompt >>

update(deltaTime) == Tick(keys, deltaTime)

(***************************************************************************)
(* gameLoop(timestamp) (src/game.js:1953-1982): one animation frame.       *)
(***************************************************************************)
\* Mutant of UpdateReturns: only a lost game stops the simulation.
UpdateReturnsWhenLost == gameState = "lost"

\* Mutant of UpdateReturns: only a won game stops the simulation.
UpdateReturnsWhenWon == gameState = "won"

\* Mutant of SkipsFrame: a delta of exactly 0.1 s is skipped too.
SkipsFrameInclusive(rawDeltaTime) == rawDeltaTime >= SKIP_THRESHOLD

\* Mutant of SkipsFrame: no frame is skipped.
SkipsFrameNever(rawDeltaTime) == FALSE

\* update's early return (src/game.js:871).
UpdateReturns == gameState # "playing"

\* gameLoop's test for a frame to skip (src/game.js:1960).
SkipsFrame(rawDeltaTime) == rawDeltaTime > SKIP_THRESHOLD

RawDeltaTime(timestamp) ==
    timestamp - (IF lastTimestamp = 0 THEN timestamp ELSE lastTimestamp)

gameLoop(timestamp) ==
    LET rawDeltaTime == RawDeltaTime(timestamp)
    IN  /\ lastTimestamp' = timestamp
        /\ UNCHANGED << fixed, gameStarted, currentLevel, keys,
                        inflight, submitted >>
        /\ IF SkipsFrame(rawDeltaTime)
           THEN /\ lastFrame' = "skipped"
                /\ UNCHANGED << attempt, gameSession, bestTimes, wonTimes, message, prompt >>
           ELSE IF gameState = "ending"
           THEN /\ lastFrame' = "endingFrame"
                /\ UNCHANGED << attempt, gameSession, bestTimes, wonTimes, message, prompt >>
           ELSE IF UpdateReturns
           THEN /\ lastFrame' = "idle"
                /\ UNCHANGED << attempt, gameSession, bestTimes, wonTimes, message, prompt >>
           ELSE update(rawDeltaTime)

\* The timestamps requestAnimationFrame may pass next (a monotonic clock).
NextStamps ==
    IF lastTimestamp = 0 THEN FirstStamps
    ELSE {lastTimestamp + d : d \in FrameDeltas}

Frame ==
    /\ gameStarted
    /\ \E timestamp \in NextStamps :
          /\ timestamp <= MaxTimestamp
          /\ gameLoop(timestamp)

(***************************************************************************)
(* The username prompt and the leaderboard (src/game.js:128-150, 624-682,  *)
(* 790-810).                                                               *)
(***************************************************************************)
\* 'Skip': onSkip runs proceedAfterWin.
PromptSkip ==
    /\ prompt.open
    /\ prompt' = [prompt EXCEPT !.open = FALSE]
    /\ proceedAfterWin(gameState, gameSession, FALSE)
    /\ UNCHANGED << fixed, gameStarted, currentLevel, carSpeed,
                    carWorldX, lightsPassed, trafficLights, keys, totalSpeedChange,
                    lastSpeed, gameTime, lastTimestamp, bestTimes, wonTimes, inflight,
                    submitted, lastFrame >>

\* 'Submit' with a valid username: onSubmit calls submitFullGameToLeaderboard
\* with the captured totals and the session's levels as they are now, and
\* awaits its result; the payload carries the total to one decimal.
PromptSubmit ==
    /\ prompt.open
    /\ prompt' = [prompt EXCEPT !.open = FALSE]
    /\ submitted' = Append(submitted, [totalTime |-> ToFixed1(prompt.totalTime),
                                       avgStars |-> prompt.avgStars,
                                       levels |-> gameSession.levels])
    /\ inflight' = inflight + 1
    /\ UNCHANGED << fixed, gameStarted, currentLevel, attempt, keys,
                    gameSession, lastTimestamp, bestTimes, wonTimes, message, lastFrame >>

\* submitFullGameToLeaderboard settles: the push was stored (true) or it
\* failed, the error was caught and false returned; then proceedAfterWin.
SubmitSettled(stored) ==
    /\ inflight > 0
    /\ inflight' = inflight - 1
    /\ proceedAfterWin(gameState, gameSession, stored)
    /\ UNCHANGED << fixed, gameStarted, currentLevel, carSpeed,
                    carWorldX, lightsPassed, trafficLights, keys, totalSpeedChange,
                    lastSpeed, gameTime, lastTimestamp, bestTimes, wonTimes, prompt,
                    submitted, lastFrame >>

Next ==
    \/ \E pedal \in {"gas", "brake"} : PedalDown(pedal)
    \/ \E pedal \in {"gas", "brake"} : PedalUp(pedal)
    \/ Restart
    \/ DebugEnding
    \/ MessageButton
    \/ \E skipToEnding \in BOOLEAN : StartGame(skipToEnding)
    \/ Frame
    \/ PromptSkip
    \/ PromptSubmit
    \/ \E stored \in BOOLEAN : SubmitSettled(stored)

Spec == Init /\ [][Next]_vars

\* The same program loaded with the catalog of three levels, the leaderboard
\* backend and the best-time store both working.
InitThree == Loaded(ThreeLevels) /\ firebaseAvailable /\ storageAvailable
SpecThree == InitThree /\ [][Next]_vars

\* The same program with frames 0.05 s or 0.1 s apart, so that game times
\* fall between tenths of a second, and a player who plays the levels in order:
\* no R key, no debug key.
FineDeltas == {1, 2}

FineFrame ==
    /\ gameStarted
    /\ \E timestamp \in (IF lastTimestamp = 0 THEN FirstStamps
                          ELSE {lastTimestamp + d : d \in FineDeltas}) :
          /\ timestamp <= MaxFineStamp
          /\ gameLoop(timestamp)

NextFine ==
    \/ StartGame(FALSE)
    \/ \E pedal \in {"gas", "brake"} : PedalDown(pedal)
    \/ \E pedal \in {"gas", "brake"} : PedalUp(pedal)
    \/ MessageButton
    \/ FineFrame
    \/ PromptSkip
    \/ PromptSubmit
    \/ \E stored \in BOOLEAN : SubmitSettled(stored)

\* The leaderboard backend and the best-time store both work.
InitFine == Loaded(TestCatalog) /\ firebaseAvailable /\ storageAvailable
SpecFine == InitFine /\ [][NextFine]_vars

\* The same program loaded with the catalog whose first level has its lights
\* under the car.
InitOrder == Loaded(OrderCatalog)
SpecOrder == InitOrder /\ [][Next]_vars

(***************************************************************************)
(* Vocabulary of the properties.                                           *)
(***************************************************************************)
\* The step is an animation frame (every frame moves lastTimestamp).
FrameStep == lastTimestamp' # lastTimestamp

\* The step is a frame that ran update's body: a simulated tick.
TickStep == FrameStep /\ gameState = "playing" /\ lastFrame' \in {"tick", "won", "red", "stopped"}

\* The step ran initLevel: neither a frame, a pedal, the prompt, a settled
\* submission nor the start of the ending animation.
InitLevelStep ==
    /\ lastTimestamp' = lastTimestamp
    /\ keys' = keys
    /\ prompt' = prompt
    /\ inflight' = inflight
    /\ gameState' # "ending"
    /\ message' = NoMessage
    /\ attempt' # attempt \/ currentLevel' # currentLevel \/ message' # message
       \/ gameSession' # gameSession \/ gameStarted' # gameStarted

StoppedReason == "You stopped!"
RedReason == "You ran a red light!"

\* Light i is crossed by the step: un-passed before it, behind the bumper after it.
Crossed(i) == ~trafficLights[i].passed /\ CarFront(carWorldX') > trafficLights[i].x

\* The phase, at the tick's game time, of light i.
PhaseAtTick(i) == getLightState(trafficLights[i], gameTime')

\* update's loop reaches light i: no light before it is crossed on red.
Reached(i) == \A j \in 1..(i - 1) : ~(Crossed(j) /\ PhaseAtTick(j) = "red")

NewlyPassed == {i \in 1..Len(trafficLights) : ~trafficLights[i].passed /\ trafficLights'[i].passed}

(***************************************************************************)
(* C1 (as amended).  On a simulated tick that does not end by stopping,    *)
(* every crossed light that update's loop reaches is decided by its phase  *)
(* at the new game time alone: red loses the attempt with the red-light    *)
(* reason and leaves the light un-passed; yellow, green and blinking       *)
(* yellow mark it passed.  lightsPassed grows by one per light marked, and *)
(* the tick loses only if a reached crossed light is red.                  *)
(***************************************************************************)
C1_CrossingDecidedByPhase ==
    [][(TickStep /\ lastFrame' # "stopped") =>
         /\ \A i \in 1..Len(trafficLights) :
              (Crossed(i) /\ Reached(i)) =>
                 IF PhaseAtTick(i) = "red"
                 THEN /\ gameState' = "lost"
                      /\ message'.text = RedReason
                      /\ ~trafficLights'[i].passed
                 ELSE trafficLights'[i].passed
         /\ lightsPassed' = lightsPassed + Cardinality(NewlyPassed)
         /\ gameState' = "lost" =>
              \E i \in 1..Len(trafficLights) :
                 Crossed(i) /\ Reached(i) /\ PhaseAtTick(i) = "red"]_vars

\* C1, witness: one tick crossed a first light (passed) and a second on red.
C1_Witness ==
    /\ lastFrame = "red"
    /\ gameState = "lost"
    /\ message.text = RedReason
    /\ gameTime = SKIP_THRESHOLD
    /\ lightsPassed = 1
    /\ trafficLights[1].passed

\* C1 as stated: every crossed light, reached by the loop or not, is decided
\* by its own phase.
C1_Original ==
    [][(TickStep /\ lastFrame' # "stopped") =>
         \A i \in 1..Len(trafficLights) :
            Crossed(i) =>
               IF PhaseAtTick(i) = "red"
               THEN gameState' = "lost" /\ message'.text = RedReason
               ELSE trafficLights'[i].passed]_vars

C2_WitnessCoast ==
    /\ lastFrame = "stopped"
    /\ gameState = "lost"
    /\ currentLevel = 1
    /\ totalSpeedChange = 120
    /\ keys = NoKeys

\* Stopped by braking alone, in two ticks (all 6.25 km/h counted).
C2_WitnessBrake ==
    /\ lastFrame = "stopped"
    /\ gameState = "lost"
    /\ currentLevel = 1
    /\ totalSpeedChange = 125
    /\ gameTime = 2 * SKIP_THRESHOLD
    /\ keys = [gas |-> FALSE, brake |-> TRUE]

(***************************************************************************)
(* C3 (refuted by the code).  A simulated tick that leaves carSpeed at 0   *)
(* ends the attempt: no state is Playing right after a tick with speed 0.  *)
(***************************************************************************)
C3_StopAlwaysLoses ==
    ~(lastFrame = "tick" /\ gameState = "playing" /\ carSpeed = 0)

(***************************************************************************)
(* C4.  carSpeed is within [0, MAX_SPEED] in every reachable state.        *)
(***************************************************************************)
C4_SpeedInRange == 0 <= carSpeed /\ carSpeed <= Kmh(MAX_SPEED)

\* C4, witness: the throttle ran into the cap.
C4_Witness ==
    /\ carSpeed = Kmh(MAX_SPEED)
    /\ keys.gas /\ ~keys.brake
    /\ lastFrame \in {"tick", "won", "red"}
    /\ totalSpeedChange > 0

\* The lower clamp: a braking tick ended at 0.
C4_WitnessZero == carSpeed = 0 /\ lastFrame = "stopped"

(***************************************************************************)
(* C5 (as amended).  Won and Lost are left only by a handler, never by a   *)
(* frame: either initLevel starts a fresh attempt (Playing), or the ending *)
(* animation starts ('ending': proceedAfterWin after the username prompt   *)
(* of a last-level win, or the E key).  No step leads from Won to Lost or  *)
(* from Lost to Won.                                                       *)
(***************************************************************************)
C5_TerminalStates ==
    [][(gameState \in {"won", "lost"} /\ gameState' # gameState) =>
         /\ ~FrameStep
         /\ \/ /\ gameState' = "playing"
               /\ gameTime' = 0 /\ carWorldX' = 0 /\ lightsPassed' = 0
            \/ gameState' = "ending"]_vars

\* C5, witness: the settled leaderboard submission of a last-level win took
\* the game from Won to the ending animation.
C5_Witness ==
    /\ gameState = "ending"
    /\ lastFrame = "won"
    /\ currentLevel = Len(levels)
    /\ Len(submitted) = 1
    /\ inflight = 0
    /\ gameSession = NoSession

\* A new attempt started from Lost.
C5_WitnessRetry ==
    /\ gameState = "playing"
    /\ lastFrame \in {"red", "stopped"}
    /\ gameTime = 0

\* C5 as stated: the only way out of Won or Lost is to Playing.
C5_Original ==
    [][(gameState \in {"won", "lost"} /\ gameState' # gameState) =>
         gameState' = "playing"]_vars

(***************************************************************************)
(* C6.  Crossings are never skipped: the frame that wins the attempt       *)
(* leaves every runtime light of the level passed and lightsPassed equal   *)
(* to the number of lights of the level.                                   *)
(***************************************************************************)
C6_WonMeansAllPassed ==
    [][(FrameStep /\ lastFrame' = "won") =>
         /\ Len(trafficLights') = Len(levels[currentLevel].lights)
         /\ \A i \in 1..Len(trafficLights') : trafficLights'[i].passed
         /\ lightsPassed' = Len(levels[currentLevel].lights)]_vars

\* C6, witness: level 2 won, its three lights (two of them jumped by one
\* tick) passed.
C6_Witness ==
    /\ lastFrame = "won"
    /\ gameState \in {"won", "ending"}
    /\ currentLevel = 2
    /\ lightsPassed = 3
    /\ \A i \in 1..3 : trafficLights[i].passed

(***************************************************************************)
(* C9.  A frame whose measured delta exceeds 0.1 s is skipped: the attempt *)
(* state (carWorldX, carSpeed, gameTime, totalSpeedChange, lastSpeed,      *)
(* lightsPassed, the passed flags, gameState) is unchanged.  A frame whose *)
(* delta is exactly 0.1 s is simulated.                                    *)
(***************************************************************************)
C9_LargeDeltaSkip ==
    [][(FrameStep /\ lastTimestamp # 0) =>
         LET delta == lastTimestamp' - lastTimestamp
         IN  /\ delta > Tenths(1) =>
                  /\ UNCHANGED << carWorldX, carSpeed, gameTime, totalSpeedChange,
                                  lastSpeed, lightsPassed, trafficLights, gameState >>
                  /\ lastFrame' = "skipped"
             /\ (delta = Tenths(1) /\ gameState = "playing") =>
                  /\ gameTime' = gameTime + Tenths(1)
                  /\ lastFrame' \in {"tick", "won", "red", "stopped"}]_vars

\* C9, witness: a 0.5 s frame was skipped in the middle of an attempt.
C9_Witness ==
    /\ lastFrame = "skipped"
    /\ gameState = "playing"
    /\ gameTime > 0
    /\ lastTimestamp = 1 + Tenths(1) + Tenths(5)

(***************************************************************************)
(* C10.  initLevel resets the whole attempt state, whatever the state      *)
(* before: start speed, position 0, time 0, no light passed, smoothness    *)
(* accumulator 0, lastSpeed at the start speed, Playing.                   *)
(***************************************************************************)
C10_InitLevelResets ==
    [][InitLevelStep =>
         LET level == levels[currentLevel']
         IN  /\ carSpeed' = level.startSpeed
             /\ carWorldX' = 0
             /\ gameTime' = 0
             /\ lightsPassed' = 0
             /\ Len(trafficLights') = Len(level.lights)
             /\ \A i \in 1..Len(trafficLights') :
                   /\ ~trafficLights'[i].passed
                   /\ trafficLights'[i].x = level.lights[i].x
             /\ totalSpeedChange' = 0
             /\ lastSpeed' = level.startSpeed
             /\ gameState' = "playing"]_vars

\* C10, witness: a fresh attempt right after a Won one.
C10_Witness ==
    /\ lastFrame = "won"
    /\ gameState = "playing"
    /\ gameTime = 0 /\ carWorldX = 0 /\ totalSpeedChange = 0 /\ lightsPassed = 0
    /\ carSpeed = levels[currentLevel].startSpeed

\* A fresh attempt right after a Lost one, and one that cut a Playing one short.
C10_WitnessLost == lastFrame \in {"red", "stopped"} /\ gameState = "playing" /\ gameTime = 0
C10_WitnessPlaying ==
    /\ lastFrame = "tick" /\ gameState = "playing" /\ gameTime = 0 /\ lastTimestamp > 1
    /\ carSpeed = levels[currentLevel].startSpeed /\ message = NoMessage

\* The tick's speed change comes from the friction rule: not throttle alone,
\* not brake alone.
FrictionTick == TickStep /\ ~(keys.gas /\ ~keys.brake) /\ ~(keys.brake /\ ~keys.gas)

(***************************************************************************)
(* C13 (refuted by the code).  The smoothness accumulator is unaffected by *)
(* friction: a tick whose speed change comes from the friction rule leaves *)
(* totalSpeedChange unchanged; on throttle or brake ticks it never         *)
(* decreases, and it is never negative.                                    *)
(***************************************************************************)
C13_FrictionNotCounted ==
    [][/\ FrictionTick => totalSpeedChange' = totalSpeedChange
       /\ TickStep => totalSpeedChange' >= totalSpeedChange
       /\ totalSpeedChange' >= 0]_vars

(***************************************************************************)
(* C14 (refuted by the code).  A tick with throttle and brake both held    *)
(* has the result of the same tick with neither held: the step satisfies   *)
(* update's body evaluated with no pedal (whose outcome fixes carSpeed,    *)
(* carWorldX, gameTime, totalSpeedChange, lastSpeed, the passed flags,     *)
(* lightsPassed and gameState).                                            *)
(***************************************************************************)
C14_BothAsNeither ==
    [][(TickStep /\ keys.gas /\ keys.brake) => Tick(NoKeys, gameTime' - gameTime)]_vars

(***************************************************************************)
(* C15 (refuted by the code).  The leaderboard submitter is called only    *)
(* after a full-session win: whenever the username prompt that leads to    *)
(* the call is open, a submission is awaiting its result or one has been   *)
(* made, every level of the catalog has been won.                          *)
(***************************************************************************)
C15_SubmitOnlyAfterFullSession ==
    (prompt.open \/ inflight > 0 \/ Len(submitted) > 0) =>
        \A l \in 1..Len(levels) : wonTimes[l] # {}

(***************************************************************************)
(* C16.  With a working best-time store, the stored best time of every     *)
(* level is the least finish time of its Won attempts so far, and absent   *)
(* (0) when the level was never won; a stored time never increases or      *)
(* disappears, and only a winning frame changes the store.                 *)
(***************************************************************************)
C16_BestIsMinimum ==
    /\ [](storageAvailable =>
             \A l \in 1..Len(levels) :
                IF wonTimes[l] = {} THEN bestTimes[l] = 0
                ELSE /\ bestTimes[l] \in wonTimes[l]
                     /\ \A t \in wonTimes[l] : bestTimes[l] <= t)
    /\ [][storageAvailable =>
             /\ \A l \in 1..Len(levels) :
                   bestTimes[l] # 0 => (bestTimes'[l] # 0 /\ bestTimes'[l] <= bestTimes[l])
             /\ bestTimes' # bestTimes => (FrameStep /\ lastFrame' = "won")
             /\ gameState' = "lost" => bestTimes' = bestTimes]_vars

\* C16, witness: level 1 was won in 0.1 s and in 0.2 s, and 0.1 s is stored.
C16_Witness ==
    /\ storageAvailable
    /\ wonTimes[1] = {Tenths(1), Tenths(2)}
    /\ bestTimes[1] = Tenths(1)

\* A collaborator is unavailable: localStorage throws, or the leaderboard
\* backend did not initialise.
CollaboratorDown == ~storageAvailable \/ ~firebaseAvailable

(***************************************************************************)
(* C17.  Collaborator failures never reach the simulation.  With the       *)
(* best-time store or the leaderboard unavailable, a winning frame still   *)
(* ends the attempt as Won (on the last level the win is processed at once *)
(* and the ending starts), still appends the level to an active session,   *)
(* and leaves the way on open: the 'Next level' button or the username     *)
(* prompt.  A playing frame of at most 0.1 s is still simulated, a settled *)
(* submission (stored or failed) continues the win, and a Won game always  *)
(* has the button, the prompt or a pending submission to go on with.       *)
(***************************************************************************)
C17_FailuresSwallowed ==
    /\ [](CollaboratorDown =>
             (gameState = "won" =>
                (message.button = "next" \/ prompt.open \/ inflight > 0)))
    /\ [][CollaboratorDown =>
             /\ (FrameStep /\ lastFrame' = "won") =>
                   /\ gameState' \in {"won", "ending"}
                   /\ gameState' = "ending" => currentLevel = Len(levels)
                   /\ gameState' = "won" => (message'.button = "next" \/ prompt'.open)
                   /\ (gameSession.active /\ gameState' = "won") =>
                         /\ gameSession'.active
                         /\ Len(gameSession'.levels) = Len(gameSession.levels) + 1
                         /\ gameSession'.levels[Len(gameSession'.levels)].level = currentLevel
                   /\ ~storageAvailable => bestTimes' = bestTimes
             /\ (FrameStep /\ gameState = "playing"
                   /\ lastTimestamp' - lastTimestamp <= SKIP_THRESHOLD) =>
                   lastFrame' \in {"tick", "won", "red", "stopped"}
             /\ inflight' < inflight =>
                   (gameState' = "ending" \/ message'.button = "next")]_vars

\* C17, witness: with neither collaborator, level 1 was won and recorded,
\* nothing was stored, and level 2 is being played.
C17_Witness ==
    /\ ~storageAvailable /\ ~firebaseAvailable
    /\ currentLevel = 2
    /\ gameState = "playing"
    /\ lastFrame = "tick"
    /\ gameTime > 0
    /\ wonTimes[1] # {}
    /\ bestTimes[1] = 0
    /\ Len(gameSession.levels) = 1

\* With no store but the leaderboard present, the last level's win still
\* opened the prompt, and the submission settled into the ending.
C17_WitnessEnding ==
    /\ ~storageAvailable /\ firebaseAvailable
    /\ gameState = "ending"
    /\ Len(submitted) = 1
    /\ inflight = 0
    /\ wonTimes[2] # {}
    /\ bestTimes = [l \in 1..Len(levels) |-> 0]

\* The step ran proceedAfterWin: a winning frame without the username
\* prompt, the prompt's 'Skip', or a settled submission.
ProceedStep ==
    \/ FrameStep /\ lastFrame' = "won" /\ ~(prompt'.open /\ ~prompt.open)
    \/ prompt.open /\ ~prompt'.open /\ inflight' = inflight
    \/ inflight' < inflight

(***************************************************************************)
(* C18.  Session lifecycle.  A session is created (active, no completed    *)
(* level) exactly when level 1 begins: every initLevel(1) leaves a fresh   *)
(* session and no other step makes one.  It is cleared (inactive, empty)   *)
(* once the last level's win has been processed: every proceedAfterWin on  *)
(* the last level clears it and no other step does.  Starting or           *)
(* restarting any other level leaves the session as it is.                 *)
(***************************************************************************)
C18_SessionLifecycle ==
    [][/\ (InitLevelStep /\ currentLevel' = 1) => gameSession' = startGameSession
       /\ (gameSession' # gameSession /\ gameSession' = startGameSession) =>
             (InitLevelStep /\ currentLevel' = 1)
       /\ (ProceedStep /\ currentLevel = Len(levels)) => gameSession' = NoSession
       /\ (gameSession' # gameSession /\ gameSession' = NoSession) =>
             (ProceedStep /\ currentLevel = Len(levels) /\ gameState' = "ending")
       /\ (InitLevelStep /\ currentLevel' # 1) => gameSession' = gameSession]_vars

\* C18, witness: level 2 was restarted after a lost attempt and the session,
\* begun at level 1, still holds level 1's win.
C18_Witness ==
    /\ currentLevel = 2
    /\ gameState = "playing"
    /\ gameTime = 0
    /\ lastFrame \in {"red", "stopped"}
    /\ gameSession.active
    /\ Len(gameSession.levels) = 1
    /\ gameSession.levels[1].level = 1

\* The last level's win was processed and the session cleared.
C18_WitnessCleared ==
    /\ gameSession = NoSession
    /\ gameState = "ending"
    /\ currentLevel = Len(levels)
    /\ lastFrame = "won"
    /\ wonTimes[1] # {} /\ wonTimes[2] # {}

\* Level 1 begun again after its win: a new, empty session.
C18_WitnessCreated ==
    /\ gameSession = startGameSession
    /\ currentLevel = 1
    /\ gameState = "playing"
    /\ lastFrame = "won"
    /\ wonTimes[1] # {}

\* The step is the frame that wins the attempt.
WinStep == FrameStep /\ lastFrame' = "won"

\* The session keeps the entries it had and gains exactly entry, unless the
\* win was of the last level and processed at once (the session is cleared).
AppendsOnly(entry) ==
    \/ gameSession' = [gameSession EXCEPT !.levels = Append(@, entry)]
    \/ /\ gameSession' = NoSession
       /\ gameState' = "ending"
       /\ currentLevel = Len(levels)

\* No entry is added: the completed levels are kept, or emptied.
AppendsNothing ==
    gameSession'.levels = gameSession.levels \/ gameSession'.levels = << >>

(***************************************************************************)
(* C19 (as amended).  Every winning frame with the session active appends  *)
(* exactly one entry: the level, the finish time rounded to one decimal,   *)
(* the stars of the accumulated speed change over the level's finishX, and *)
(* the accumulated speed change rounded to one decimal.  No other step     *)
(* (a lost attempt, a restart, a skipped frame) appends anything.          *)
(***************************************************************************)
C19_SessionEntry ==
    [][/\ (WinStep /\ gameSession.active) =>
             AppendsOnly([level |-> currentLevel,
                          time |-> ToFixed1(gameTime'),
                          stars |-> calculateStars(totalSpeedChange',
                                                   levels[currentLevel].finishX),
                          smoothness |-> ToFixed1(totalSpeedChange')])
       /\ ~WinStep => AppendsNothing]_vars

\* C19, witness: a win recorded with a smoothness that differs from the
\* accumulated speed change (14.25 km/h, recorded as 14.3).
C19_Witness ==
    /\ lastFrame = "won"
    /\ gameState = "won"
    /\ gameSession.active
    /\ Len(gameSession.levels) = 1
    /\ gameSession.levels[1].level = currentLevel
    /\ gameSession.levels[1].time = gameTime
    /\ gameSession.levels[1].smoothness # totalSpeedChange

\* C19 as stated: the entry holds gameTime and totalSpeedChange themselves.
C19_Original ==
    [][/\ (WinStep /\ gameSession.active) =>
             AppendsOnly([level |-> currentLevel,
                          time |-> gameTime',
                          stars |-> calculateStars(totalSpeedChange',
                                                   levels[currentLevel].finishX),
                          smoothness |-> totalSpeedChange'])
       /\ ~WinStep => AppendsNothing]_vars

(***************************************************************************)
(* The full-throttle run of level 1 of the game's catalog: the game is     *)
(* started, the throttle is pressed and never released, the brake is never *)
(* pressed, and every animation frame comes 0.05 s or 0.1 s after the one  *)
(* before, with the throttle down.                                         *)
(***************************************************************************)
ScenarioDeltas == {1, 2}

ScenarioStamps ==
    IF lastTimestamp = 0 THEN FirstStamps
    ELSE {lastTimestamp + d : d \in ScenarioDeltas}

ScenarioFrame ==
    /\ gameStarted
    /\ keys = [gas |-> TRUE, brake |-> FALSE]
    /\ \E timestamp \in ScenarioStamps :
          /\ timestamp <= MaxScenarioStamp
          /\ gameLoop(timestamp)

NextScenario ==
    \/ StartGame(FALSE)
    \/ PedalDown("gas")
    \/ ScenarioFrame

InitScenario == Loaded(ReferenceCatalog)
SpecScenario == InitScenario /\ [][NextScenario]_vars

\* Game time by which every full-throttle run of level 1 has finished (3.4 s).
ScenarioHorizon == Tenths(34)

(***************************************************************************)
(* C20.  Level 1 (one light at 600 px, green 4 s, red 2 s, offset 0, start *)
(* at 40 km/h, finish at 900 px) under full throttle from t = 0, with      *)
(* every tick's dt in (0, 0.1]: the attempt is never Lost, the light is    *)
(* crossed in a phase that is not red and marked passed, every run has     *)
(* ended Won by 3.4 s, and a Won run has lightsPassed = 1.                 *)
(***************************************************************************)
C20_FullThrottleWins ==
    /\ [](/\ currentLevel = 1
          /\ gameState \in {"playing", "won"}
          /\ gameState = "won" => (lightsPassed = 1 /\ trafficLights[1].passed)
          /\ lastTimestamp >= 1 + ScenarioHorizon => gameState = "won")
    /\ [][(TickStep /\ Crossed(1)) =>
             (PhaseAtTick(1) # "red" /\ trafficLights'[1].passed
              /\ lightsPassed' = 1)]_vars

\* C20, witness: a run with a 0.05 s tick in it has ended Won, light passed.
C20_Witness ==
    /\ gameState = "won"
    /\ lastFrame = "won"
    /\ lightsPassed = 1
    /\ trafficLights[1].passed
    /\ gameTime % 2 = 1
    /\ carWorldX > Px(900)
    /\ keys = [gas |-> TRUE, brake |-> FALSE]

\* The run of 0.1 s ticks alone has ended Won.
C20_WitnessTenths ==
    /\ gameState = "won"
    /\ lightsPassed = 1
    /\ lastTimestamp = 1 + gameTime
    /\ gameTime = Tenths(32)

(***************************************************************************)
(* C21 (refuted by the code).  The game never waits for the leaderboard:   *)
(* the frame that wins the last level runs the post-win step itself -- the *)
(* ending starts and the session is cleared -- whether or not a username   *)
(* prompt or a submission is to follow.                                    *)
(***************************************************************************)
C21_NoWaitForLeaderboard ==
    [][(WinStep /\ currentLevel = Len(levels)) =>
         (gameState' = "ending" /\ gameSession' = NoSession)]_vars

(***************************************************************************)
(* C24.  Each runtime light's passed flag is set once and is monotonic:    *)
(* lightsPassed always counts exactly the lights whose flag is set (a flag *)
(* set twice would be counted twice); a step that runs initLevel leaves    *)
(* every flag false; any other step keeps the lights' number and every     *)
(* flag that is set; and only a simulated tick sets a flag.                *)
(***************************************************************************)
C24_PassedMonotonic ==
    /\ [](lightsPassed = Cardinality({i \in 1..Len(trafficLights) : trafficLights[i].passed}))
    /\ [][/\ InitLevelStep => \A i \in 1..Len(trafficLights') : ~trafficLights'[i].passed
          /\ ~InitLevelStep =>
                /\ Len(trafficLights') = Len(trafficLights)
                /\ \A i \in 1..Len(trafficLights) :
                      trafficLights[i].passed => trafficLights'[i].passed
          /\ NewlyPassed # {} => TickStep]_vars

\* Level 1's light, set by the attempt's first tick, is still set and still
\* counted once after a second tick of 0.1 s.
C24_Witness ==
    /\ currentLevel = 1 /\ gameState = "playing" /\ lastFrame = "tick"
    /\ gameTime = Tenths(1)
    /\ trafficLights[1].passed
    /\ lightsPassed = 1

\* Level 1 restarted after a tick (every tick of level 1 that does not stop
\* the car sets its light): the flag is false again.
C24_WitnessRestart ==
    /\ currentLevel = 1 /\ gameState = "playing" /\ lastFrame = "tick"
    /\ gameTime = 0
    /\ ~trafficLights[1].passed
    /\ lightsPassed = 0

\* Level 2: the first light set, the third not yet.
C24_WitnessSome ==
    /\ currentLevel = 2 /\ gameState = "playing"
    /\ trafficLights[1].passed /\ ~trafficLights[3].passed
    /\ lightsPassed \in {1, 2}

(***************************************************************************)
(* C25.  carWorldX and gameTime are never negative; a simulated tick never *)
(* decreases either; only a tick or a step that runs initLevel changes     *)
(* them; and a step that decreases one of them is a step of initLevel      *)
(* (level start, restart, retry, next level), which puts both back to 0.   *)
(***************************************************************************)
C25_PositionAndTimeMonotonic ==
    /\ [](carWorldX >= 0 /\ gameTime >= 0)
    /\ [][/\ TickStep => (carWorldX' >= carWorldX /\ gameTime' >= gameTime)
          /\ (carWorldX' # carWorldX \/ gameTime' # gameTime) =>
                (TickStep \/ InitLevelStep)
          /\ (carWorldX' < carWorldX \/ gameTime' < gameTime) =>
                (InitLevelStep /\ carWorldX' = 0 /\ gameTime' = 0)]_vars

\* Level 2 after ticks adding up to 0.2 s: still playing, the car has moved on.
C25_Witness ==
    /\ currentLevel = 2 /\ gameState = "playing" /\ lastFrame = "tick"
    /\ gameTime = Tenths(2)
    /\ carWorldX > Px(50)

\* A tick with the brake held down to a crawl: the car still moves forward.
C25_WitnessBrake ==
    /\ gameState = "playing" /\ lastFrame = "tick" /\ keys.brake /\ ~keys.gas
    /\ carSpeed > 0 /\ carSpeed < Kmh(1)
    /\ carWorldX > 0

(***************************************************************************)
(* C26.  A frame's effect on gameTime depends on its own delta alone (the  *)
(* stamp of the frame minus the stamp of the frame before, whatever that   *)
(* one did): a delta above 0.1 s leaves gameTime, and all the attempt, as  *)
(* it was, and a frame of a playing attempt with a delta of at most 0.1 s  *)
(* adds exactly that delta -- so an interval that was skipped is never     *)
(* added by a later tick -- and nothing but a frame or initLevel changes   *)
(* gameTime, which is therefore the sum of the deltas of the frames that   *)
(* were not skipped.                                                       *)
(***************************************************************************)
C26_SkippedIntervalDiscarded ==
    [][/\ (FrameStep /\ lastTimestamp # 0
             /\ lastTimestamp' - lastTimestamp > SKIP_THRESHOLD) =>
            (attempt' = attempt /\ lastFrame' = "skipped")
       /\ (FrameStep /\ lastTimestamp # 0 /\ gameState = "playing"
             /\ lastTimestamp' - lastTimestamp <= SKIP_THRESHOLD) =>
            (TickStep /\ gameTime' = gameTime + (lastTimestamp' - lastTimestamp))
       /\ (FrameStep /\ lastTimestamp = 0 /\ gameState = "playing") =>
            (TickStep /\ gameTime' = gameTime)
       /\ gameTime' # gameTime => (TickStep \/ InitLevelStep)]_vars

\* Level 1: the first frame at stamp 1 (delta 0), a frame 0.15 s later that
\* is skipped, then a tick of 0.1 s (stamp 6 is reached by these deltas only):
\* the stamp has advanced by 0.25 s, gameTime by the 0.1 s of the tick.
C26_Witness ==
    /\ currentLevel = 1 /\ gameState = "playing" /\ lastFrame = "tick"
    /\ lastTimestamp = 6
    /\ gameTime = Tenths(1)

(***************************************************************************)
(* C29.  A frame processed while gameState is 'won' or 'lost' changes      *)
(* nothing of the attempt (gameState, gameTime, carSpeed, carWorldX,       *)
(* totalSpeedChange, lastSpeed, the lights with their passed flags,        *)
(* lightsPassed), of the session, of the best times, of the message or of  *)
(* the prompt, whatever the pedals and the frame's delta.                  *)
(***************************************************************************)
C29_TerminalFrameIsInert ==
    [][(FrameStep /\ gameState \in {"won", "lost"}) =>
         /\ attempt' = attempt
         /\ gameSession' = gameSession
         /\ bestTimes' = bestTimes
         /\ message' = message
         /\ prompt' = prompt
         /\ lastFrame' \in {"idle", "skipped"}]_vars

\* A frame that was not skipped has found the game won, with the gas held.
C29_Witness ==
    /\ gameState = "won" /\ lastFrame = "idle"
    /\ keys.gas

\* A frame that was not skipped has found the game lost, with a pedal held.
C29_WitnessLost ==
    /\ gameState = "lost" /\ lastFrame = "idle"
    /\ (keys.gas \/ keys.brake)

\* The lights crossed by the step in their red phase, and the first of them.
CrossedRed == {i \in 1..Len(trafficLights) : Crossed(i) /\ PhaseAtTick(i) = "red"}

FirstCrossedRed == CHOOSE i \in CrossedRed : \A j \in CrossedRed : i <= j

(***************************************************************************)
(* C30.  Within a tick the lights are evaluated in the order of the        *)
(* runtime list (ascending positions) and a red light ends the tick: when  *)
(* lights that are un-passed and behind the bumper include a Red one, the  *)
(* attempt is Lost with the red-light reason; of the lights before the     *)
(* first such Red one, those behind the bumper and un-passed are marked    *)
(* passed and counted; the Red light and every light after it keep their   *)
(* flags; and the tick does not win -- no session entry, no best time --   *)
(* even where carWorldX is beyond the finish line.                         *)
(***************************************************************************)
C30_FirstRedDecides ==
    [][(TickStep /\ lastFrame' # "stopped" /\ CrossedRed # {}) =>
         /\ gameState' = "lost"
         /\ lastFrame' = "red"
         /\ message' = [button |-> "retry", text |-> RedReason]
         /\ \A i \in 1..Len(trafficLights) :
               trafficLights'[i].passed =
                  (trafficLights[i].passed \/ (i < FirstCrossedRed /\ Crossed(i)))
         /\ lightsPassed' = lightsPassed
               + Cardinality({i \in 1..(FirstCrossedRed - 1) : Crossed(i)})
         /\ gameSession' = gameSession
         /\ bestTimes' = bestTimes
         /\ prompt' = prompt]_vars

\* The first level restarted and ticked once: the car is beyond the finish
\* line, the first light is passed, the second was red, the third (not red,
\* behind the bumper too) is left un-passed, and the attempt is lost.
C30_Witness ==
    /\ currentLevel = 1 /\ gameState = "lost" /\ lastFrame = "red"
    /\ carWorldX > levels[1].finishX
    /\ CarFront(carWorldX) > trafficLights[3].x
    /\ trafficLights[1].passed /\ ~trafficLights[2].passed /\ ~trafficLights[3].passed
    /\ getLightState(trafficLights[2], gameTime) = "red"
    /\ getLightState(trafficLights[3], gameTime) # "red"
    /\ lightsPassed = 1

\* The finish time of level l's one Won attempt, the sum of these times over
\* levels 1..n, and the sum of their roundings to one decimal.
WonTime(l) == CHOOSE t \in wonTimes[l] : TRUE

RECURSIVE SumWonTimes(_)
SumWonTimes(n) == IF n = 0 THEN 0 ELSE WonTime(n) + SumWonTimes(n - 1)

RECURSIVE SumRecordedTimes(_)
SumRecordedTimes(n) == IF n = 0 THEN 0 ELSE ToFixed1(WonTime(n)) + SumRecordedTimes(n - 1)

C22_WitnessSent ==
    /\ submitted # << >>
    /\ submitted[1].totalTime # SumWonTimes(Len(levels))

C32_PositiveDelta ==
    [][TickStep => (gameTime' > gameTime /\ gameTime' - gameTime <= SKIP_THRESHOLD)]_vars

C39_WitnessLastWon ==
    /\ currentLevel = Len(levels)
    /\ gameState = "ending" /\ lastFrame = "won"
    /\ wonTimes[currentLevel] # {}

\* The step shows initLevel's effect on the attempt: not a frame, it leaves a
\* playing attempt at game time 0 with the message box hidden, and it changed
\* the attempt, the level or the message box.
InitLevelEffect ==
    /\ ~FrameStep
    /\ gameState' = "playing" /\ gameTime' = 0 /\ message' = NoMessage
    /\ (attempt' # attempt \/ currentLevel' # currentLevel \/ message' # message)

(***************************************************************************)
(* C33.  initLevel(n) with n > 1 -- retry after a loss, the R key, next    *)
(* level -- leaves the session (active flag and entries), the best times   *)
(* and the pedals as they were, as well as the prompt, the submissions and *)
(* the frame stamp; it writes the attempt (start speed, position 0, time   *)
(* 0, no light passed, smoothness 0, Playing) and currentLevel.            *)
(***************************************************************************)
C33_InitLevelKeepsSession ==
    [][(InitLevelEffect /\ currentLevel' > 1) =>
         /\ gameSession' = gameSession
         /\ bestTimes' = bestTimes
         /\ keys' = keys
         /\ prompt' = prompt /\ inflight' = inflight /\ submitted' = submitted
         /\ lastTimestamp' = lastTimestamp /\ gameStarted' = gameStarted
         /\ currentLevel' \in {currentLevel, currentLevel + 1}
         /\ carSpeed' = levels[currentLevel'].startSpeed
         /\ lastSpeed' = carSpeed' /\ carWorldX' = 0
         /\ totalSpeedChange' = 0 /\ lightsPassed' = 0
         /\ trafficLights' = RuntimeLights(levels[currentLevel'])]_vars

\* Level 2 entered after the win of level 1, the gas still held: the session
\* holds level 1's entry and its best time is stored.
C33_Witness ==
    /\ currentLevel = 2 /\ gameState = "playing" /\ gameTime = 0
    /\ lastFrame = "won"
    /\ keys.gas
    /\ gameSession.active /\ Len(gameSession.levels) = 1
    /\ storageAvailable /\ bestTimes[1] # 0

\* Level 2 started again after a loss, with the session's entry kept.
C33_WitnessRetry ==
    /\ currentLevel = 2 /\ gameState = "playing" /\ gameTime = 0
    /\ lastFrame \in {"red", "stopped"}
    /\ gameSession.active /\ Len(gameSession.levels) = 1

(***************************************************************************)
(* C34.  In every reachable state lightsPassed is the number of runtime    *)
(* lights whose passed flag is set, it lies between 0 and the number of    *)
(* lights of the current level, the runtime lights are those of the        *)
(* current level (or none before the first level start), and -- the        *)
(* positions being strictly increasing -- the passed lights are a prefix   *)
(* of the sequence: every light before a passed light is passed.           *)
(***************************************************************************)
C34_PassedPrefix ==
    /\ lightsPassed = Cardinality({i \in 1..Len(trafficLights) : trafficLights[i].passed})
    /\ 0 <= lightsPassed /\ lightsPassed <= Len(levels[currentLevel].lights)
    /\ Len(trafficLights) \in {0, Len(levels[currentLevel].lights)}
    /\ \A i \in 1..Len(trafficLights) :
          /\ trafficLights[i].x = levels[currentLevel].lights[i].x
          /\ \A j \in (i + 1)..Len(trafficLights) :
                /\ trafficLights[i].x < trafficLights[j].x
                /\ trafficLights[j].passed => trafficLights[i].passed

\* Level 2 lost on its second light, crossed on red in the tick that passed
\* the first; the third, behind the bumper as well, is not passed.
C34_Witness ==
    /\ currentLevel = 2 /\ gameState = "lost" /\ lastFrame = "red"
    /\ lightsPassed = 1
    /\ trafficLights[1].passed /\ ~trafficLights[2].passed /\ ~trafficLights[3].passed
    /\ CarFront(carWorldX) > trafficLights[3].x

\* Level 2 still playing with all of its three lights passed.
C34_WitnessAll ==
    /\ currentLevel = 2 /\ gameState = "playing"
    /\ lightsPassed = 3
    /\ \A i \in 1..3 : trafficLights[i].passed

(***************************************************************************)
(* C35 (refuted by the code).  In every reachable state the session's      *)
(* entries name each level at most once, in strictly increasing level      *)
(* order, and are no more than the levels of the catalog.                  *)
(***************************************************************************)
C35_SessionEntriesDistinct ==
    /\ \A i, j \in 1..Len(gameSession.levels) :
          i < j => gameSession.levels[i].level < gameSession.levels[j].level
    /\ Len(gameSession.levels) <= Len(levels)

\* The step answers the username prompt (Skip or Submit) or settles a
\* leaderboard submission: a callback of an earlier win.
CallbackStep == (prompt.open /\ ~prompt'.open) \/ inflight' < inflight

\* The step is the debug key's: the ending animation starts, all else stays.
DebugStep ==
    /\ gameState' = "ending"
    /\ prompt' = prompt /\ inflight' = inflight
    /\ gameSession' = gameSession /\ message' = message

(***************************************************************************)
(* C37 (refuted by the code).  A Playing attempt is ended only by its own  *)
(* tick (or taken to the ending preview by the debug key); a restart       *)
(* starts it over.  While an attempt is Playing, the callbacks of an       *)
(* earlier win -- the username prompt's Skip and Submit, the settling of   *)
(* a leaderboard submission -- change neither gameState, nor the attempt,  *)
(* nor currentLevel, nor the session.                                      *)
(***************************************************************************)
C37_CallbacksLeavePlayingAlone ==
    [][gameState = "playing" =>
         /\ gameState' # "playing" => (TickStep \/ DebugStep)
         /\ CallbackStep =>
               /\ attempt' = attempt
               /\ currentLevel' = currentLevel
               /\ gameSession' = gameSession]_vars

(***************************************************************************)
(* C38 (refuted by the code).  Every call of submitFullGameToLeaderboard   *)
(* carries a per-level breakdown with exactly one entry for each level of  *)
(* the catalog, levels 1..N in order, and a total time and an average of   *)
(* stars that are the sum of the times and the mean (to one decimal) of    *)
(* the stars of exactly those entries.                                     *)
(***************************************************************************)
C38_PayloadIsTheFullSession ==
    \A i \in DOMAIN submitted :
        LET payload == submitted[i]
        IN  /\ Len(payload.levels) = Len(levels)
            /\ \A l \in 1..Len(levels) : payload.levels[l].level = l
            /\ payload.totalTime = SumField(payload.levels, "time")
            /\ payload.avgStars =
                  getSessionAverageStars([active |-> TRUE, levels |-> payload.levels])

(***************************************************************************)
(* C36 (refuted by the code).  Every attempt eventually ends, whatever the *)
(* inputs, both pedals held included.  In finite-run form: no tick of a    *)
(* positive delta leaves the attempt Playing with the car's speed and      *)
(* position exactly as they were -- such a tick has the car standing       *)
(* still, and with the same pedals held every later tick repeats it, so    *)
(* the attempt never reaches Won or Lost.                                  *)
(***************************************************************************)
C36_EveryTickProgresses ==
    [][(TickStep /\ gameTime' > gameTime /\ gameState' = "playing") =>
         (carSpeed' # carSpeed \/ carWorldX' # carWorldX)]_vars

(***************************************************************************)
(* The traffic-light functions on their own: light configs and times are   *)
(* drawn from bounded sets and the functions applied to them.              *)
(***************************************************************************)
\* Red and green durations of 0.05 s, 0.1 s and 2 s; offsets of 0, 0.15 s, 2.6 s.
ProbeDurations == {1, 2, Tenths(20)}
ProbeOffsets == {0, 3, 52}
ProbeLights ==
    {Light(Px(600), g, r, o) : g \in ProbeDurations, r \in ProbeDurations, o \in ProbeOffsets}

gameVars == << gameStarted, gameState, currentLevel, carSpeed, carWorldX, lightsPassed,
               trafficLights, keys, totalSpeedChange, lastSpeed, gameSession, gameTime,
               lastTimestamp, bestTimes, wonTimes, message, prompt, inflight, submitted, lastFrame,
               levels, firebaseAvailable, storageAvailable >>

\* getLightState(light, time) is evaluated (one evaluation per behaviour).
ProbeLightState(light, time) ==
    /\ probe = NoProbe
    /\ probe' = [op |-> "getLightState", light |-> light, time |-> time,
                 state |-> getLightState(light, time)]
    /\ UNCHANGED gameVars

\* getLightState is evaluated at time and at time shifted by k whole cycles.
ProbePeriod(light, time, k) ==
    /\ probe = NoProbe
    /\ probe' = [op |-> "period", light |-> light, time |-> time, k |-> k,
                 state |-> getLightState(light, time),
                 shifted |-> getLightState(light, time + k * CycleDuration(light))]
    /\ UNCHANGED gameVars

\* The countdown bar's two functions are evaluated at time, next to
\* getLightState at time, at every instant (of the 0.05 s grid, on which all
\* the phase boundaries of these lights lie) of the interval the two functions
\* delimit around time, and at the instants just before and just after it.
ProbeCountdown(light, time) ==
    LET remaining == getTimeUntilChange(light, time)
        duration == getCurrentPhaseDuration(light, time)
        begin == time + remaining - duration
    IN  /\ probe = NoProbe
        /\ probe' = [op |-> "countdown", light |-> light, time |-> time,
                     remaining |-> remaining, duration |-> duration,
                     state |-> getLightState(light, time),
                     during |-> {getLightState(light, t) :
                                    t \in Max(0, begin)..(time + remaining - 1)},
                     before |-> IF begin >= 1 THEN getLightState(light, begin - 1)
                                ELSE "none",
                     after |-> getLightState(light, time + remaining)]
        /\ UNCHANGED gameVars

NextLight ==
    \/ \E light \in ProbeLights, time \in 0..MaxProbeTime : ProbeLightState(light, time)
    \/ \E light \in ProbeLights, time \in 0..MaxProbeTime : ProbeCountdown(light, time)
    \/ \E light \in ProbeLights, time \in 0..MaxProbeTime, k \in (-MaxShift)..MaxShift :
          ProbePeriod(light, time, k)

\* The probes do not read the collaborators' flags: both are taken as working.
InitLight == Loaded(TestCatalog) /\ firebaseAvailable /\ storageAvailable
SpecLight == InitLight /\ [][NextLight]_vars

(***************************************************************************)
(* C7.  For every light and every time >= 0, getLightState splits one      *)
(* cycle (red + 1.0 s + green + 1.5 s), indexed by (time + offset) mod     *)
(* cycle, into Red [0, red), Yellow [red, red + 1.0), Green                *)
(* [red + 1.0, red + 1.0 + green), Blinking Yellow [red + 1.0 + green,     *)
(* cycle): half-open, so a boundary instant belongs to the later phase.    *)
(***************************************************************************)
C7_PhasePartition ==
    probe.op = "getLightState" =>
        LET red == probe.light.redDuration
            green == probe.light.greenDuration
            cycle == red + Tenths(10) + green + Tenths(15)
            a == (probe.time + probe.light.offset) % cycle
        IN  /\ probe.state \in Phases
            /\ probe.state = "red" <=> (0 <= a /\ a < red)
            /\ probe.state = "yellow" <=> (red <= a /\ a < red + Tenths(10))
            /\ probe.state = "green" <=>
                  (red + Tenths(10) <= a /\ a < red + Tenths(10) + green)
            /\ probe.state = "blinking-yellow" <=>
                  (red + Tenths(10) + green <= a /\ a < cycle)

\* C7, witness: exactly at the end of red, in a later cycle, the light is yellow.
C7_Witness ==
    /\ probe.op = "getLightState"
    /\ probe.time + probe.light.offset = CycleDuration(probe.light) + probe.light.redDuration
    /\ probe.state = "yellow"

\* Exactly at the end of the cycle the light is red again.
C7_WitnessWrap ==
    /\ probe.op = "getLightState"
    /\ probe.time + probe.light.offset = CycleDuration(probe.light)
    /\ probe.state = "red"

(***************************************************************************)
(* C8 (refuted by the code).  getLightState is periodic: for every light,  *)
(* every time t and every integer k, the phase at t is the phase at        *)
(* t + k * cycleDuration.                                                  *)
(***************************************************************************)
C8_Periodic == probe.op = "period" => probe.state = probe.shifted

\* Where the shifted time plus the offset is not negative the phases agree.
C8_PeriodicFromZero ==
    (probe.op = "period" /\ probe.time + probe.k * CycleDuration(probe.light)
                              + probe.light.offset >= 0)
        => probe.state = probe.shifted

\* Two consecutive ticks of an attempt: getLightState is evaluated at the game
\* time of a tick and at the game time of the next one, a frame delta later
\* that gameLoop does not skip.
ProbeTicks(light, time, deltaTime) ==
    /\ probe = NoProbe
    /\ ~SkipsFrame(deltaTime)
    /\ probe' = [op |-> "ticks", light |-> light, time |-> time,
                 deltaTime |-> deltaTime,
                 state |-> getLightState(light, time),
                 later |-> getLightState(light, time + deltaTime)]
    /\ UNCHANGED gameVars

NextTicks ==
    \E light \in ProbeLights, time \in 0..MaxProbeTime, deltaTime \in 0..MaxProbeDelta :
        ProbeTicks(light, time, deltaTime)

SpecTicks == InitLight /\ [][NextTicks]_vars

\* The phase that follows a phase in the cycle.
NextPhase(state) ==
    CASE state = "red" -> "yellow"
      [] state = "yellow" -> "green"
      [] state = "green" -> "blinking-yellow"
      [] state = "blinking-yellow" -> "red"

(***************************************************************************)
(* C27.  For every light and time >= 0, getTimeUntilChange is the time     *)
(* left in the current phase: positive, at most getCurrentPhaseDuration,   *)
(* the phase is the one at time at every instant from time up to (not      *)
(* including) time + remaining, and at time + remaining it is the next     *)
(* phase of the cycle red, yellow, green, blinking yellow, red.            *)
(* getCurrentPhaseDuration is the whole length of the phase at time: the   *)
(* phase began duration - remaining before time, and the instant before    *)
(* that (if not before time 0) shows another phase.                        *)
(***************************************************************************)
C27_Countdown ==
    probe.op = "countdown" =>
        /\ probe.remaining > 0
        /\ probe.remaining <= probe.duration
        /\ probe.during = {probe.state}
        /\ probe.after = NextPhase(probe.state)
        /\ probe.before \in {"none"} \cup (Phases \ {probe.state})

\* In the middle of a blinking-yellow phase of a later cycle: the countdown is
\* shorter than the phase, which began after time 0, and red comes next.
C27_Witness ==
    /\ probe.op = "countdown"
    /\ probe.state = "blinking-yellow"
    /\ probe.time + probe.light.offset > CycleDuration(probe.light)
    /\ 0 < probe.remaining /\ probe.remaining < probe.duration
    /\ probe.before = "green"
    /\ probe.after = "red"

\* Exactly on a boundary: the countdown is the whole of the new phase.
C27_WitnessBoundary ==
    /\ probe.op = "countdown"
    /\ probe.state = "green"
    /\ probe.remaining = probe.duration
    /\ probe.duration = Tenths(20)
    /\ probe.before = "yellow"

(***************************************************************************)
(* C31 (as amended).  Over two consecutive ticks (delta <= 0.1 s) the      *)
(* phase of a light whose red and green durations are each at least the    *)
(* delta is, at the later tick, the phase at the earlier one or its        *)
(* successor in the cycle red, yellow, green, blinking yellow, red.        *)
(***************************************************************************)
C31_PhaseOrder ==
    (/\ probe.op = "ticks"
     /\ probe.light.redDuration >= probe.deltaTime
     /\ probe.light.greenDuration >= probe.deltaTime)
        => probe.later \in {probe.state, NextPhase(probe.state)}

\* A tick of 0.1 s takes a light with a red phase of 0.1 s from blinking
\* yellow to red.
C31_Witness ==
    /\ probe.op = "ticks"
    /\ probe.deltaTime = Tenths(1)
    /\ probe.light.redDuration = Tenths(1)
    /\ probe.state = "blinking-yellow" /\ probe.later = "red"

\* A tick of 0.1 s from the start of that red phase finds the light yellow.
C31_WitnessWholePhase ==
    /\ probe.op = "ticks"
    /\ probe.deltaTime = Tenths(1)
    /\ probe.light.redDuration = Tenths(1)
    /\ probe.state = "red" /\ probe.later = "yellow"

\* C31 as first stated, for every light: no phase is ever skipped.
C31_Original ==
    probe.op = "ticks" => probe.later \in {probe.state, NextPhase(probe.state)}

(***************************************************************************)
(* The star rating on its own: calculateStars applied to speed changes     *)
(* 0..65 km/h in steps of 0.05 km/h and level distances of 50, 100 and     *)
(* 1000 px, singly and in pairs (a speed change and a larger one).         *)
(***************************************************************************)
StarDistances == {Px(50), Px(100), Px(1000)}
StarSteps == {1, Kmh(10), Kmh(40)}

ProbeStars(speedChange, levelDistance) ==
    /\ probe = NoProbe
    /\ probe' = [op |-> "calculateStars", speedChange |-> speedChange,
                 levelDistance |-> levelDistance,
                 stars |-> calculateStars(speedChange, levelDistance)]
    /\ UNCHANGED gameVars

ProbeStarsPair(speedChange, step, levelDistance) ==
    /\ probe = NoProbe
    /\ probe' = [op |-> "starsPair", speedChange |-> speedChange,
                 more |-> speedChange + step, levelDistance |-> levelDistance,
                 stars |-> calculateStars(speedChange, levelDistance),
                 starsMore |-> calculateStars(speedChange + step, levelDistance)]
    /\ UNCHANGED gameVars

NextStars ==
    \/ \E speedChange \in 0..MaxStarChange, levelDistance \in StarDistances :
          ProbeStars(speedChange, levelDistance)
    \/ \E speedChange \in 0..MaxStarChange, step \in StarSteps,
          levelDistance \in StarDistances :
          ProbeStarsPair(speedChange, step, levelDistance)

SpecStars == Init /\ [][NextStars]_vars

(***************************************************************************)
(* C11.  calculateStars(speedChange, levelDistance) rates the normalized   *)
(* change speedChange / (levelDistance / 100): 3 below 20, 2 from 20 to    *)
(* below 50, 1 from 50 on.  The result is 1, 2 or 3, and for a fixed       *)
(* distance a larger speed change never rates higher.                      *)
(***************************************************************************)
C11_StarThresholds ==
    /\ probe.op = "calculateStars" =>
          \* The whole part of the normalized change (km/h per 100 px).
          LET normalized == (100 * probe.speedChange * U) \div probe.levelDistance
          IN  /\ probe.stars \in {1, 2, 3}
              /\ probe.stars = 3 <=> normalized < 20
              /\ probe.stars = 2 <=> (20 <= normalized /\ normalized < 50)
              /\ probe.stars = 1 <=> normalized >= 50
    /\ probe.op = "starsPair" => probe.starsMore <= probe.stars

\* C11, witness: a normalized change of exactly 20 rates two stars.
C11_Witness ==
    /\ probe.op = "calculateStars"
    /\ 100 * probe.speedChange * U = 20 * probe.levelDistance
    /\ probe.stars = 2

\* A pair across both thresholds: three stars, and one for 40 km/h more.
C11_WitnessPair ==
    /\ probe.op = "starsPair"
    /\ probe.stars = 3
    /\ probe.starsMore = 1

(***************************************************************************)
(* C12 (as amended).  Over a distance of 1000 px the speed changes 10, 30  *)
(* and 60 km/h are normalized to 1, 3 and 6 and all rate three stars; the  *)
(* ratings 3, 2 and 1 are those of 10, 30 and 60 km/h over 100 px.         *)
(***************************************************************************)
C12_ScenarioValues ==
    probe.op = "calculateStars" =>
        /\ (probe.levelDistance = Px(1000)
              /\ probe.speedChange \in {Kmh(10), Kmh(30), Kmh(60)}) => probe.stars = 3
        /\ probe.levelDistance = Px(100) =>
              /\ probe.speedChange = Kmh(10) => probe.stars = 3
              /\ probe.speedChange = Kmh(30) => probe.stars = 2
              /\ probe.speedChange = Kmh(60) => probe.stars = 1

\* C12, witness: calculateStars(30, 1000) was evaluated, to three stars.
C12_Witness ==
    /\ probe.op = "calculateStars"
    /\ probe.levelDistance = Px(1000)
    /\ probe.speedChange = Kmh(30)
    /\ probe.stars = 3

\* C12 as stated: calculateStars(10, 1000) = 3, calculateStars(30, 1000) = 2,
\* calculateStars(60, 1000) = 1.
C12_Original ==
    (probe.op = "calculateStars" /\ probe.levelDistance = Px(1000)) =>
        /\ probe.speedChange = Kmh(10) => probe.stars = 3
        /\ probe.speedChange = Kmh(30) => probe.stars = 2
        /\ probe.speedChange = Kmh(60) => probe.stars = 1

(***************************************************************************)
(* The session's aggregates on their own: a completed session of n levels  *)
(* whose stars (each 1, 2 or 3) add up to total.                           *)
(***************************************************************************)
\* A session of n entries with stars in 1..3 adding up to total (n <= total <= 3n).
SessionOfStars(n, total) ==
    [active |-> TRUE,
     levels |-> [i \in 1..n |->
                   [level |-> i, time |-> Tenths(1), smoothness |-> 0,
                    stars |-> 1 + (IF i <= total - n THEN 1 ELSE 0)
                               + (IF i <= total - 2 * n THEN 1 ELSE 0)]]]

\* getSessionAverageStars and the glyph count are evaluated on such a session.
ProbeAverage(n, total) ==
    LET session == SessionOfStars(n, total)
        avgStars == getSessionAverageStars(session)
    IN  /\ probe = NoProbe
        /\ probe' = [op |-> "average", n |-> n,
                     totalStars |-> SumField(session.levels, "stars"),
                     avgStars |-> avgStars,
                     glyphs |-> AverageStarGlyphs(avgStars)]
        /\ UNCHANGED gameVars

NextAverage ==
    \E n \in 1..MaxSessionLevels : \E total \in n..(3 * n) : ProbeAverage(n, total)

SpecAverage == Init /\ [][NextAverage]_vars

(***************************************************************************)
(* C23 (refuted by the code).  For every completed session the displayed   *)
(* average is the mean of the levels' stars rounded to one decimal, and    *)
(* the number of filled glyphs is the exact mean rounded to the nearest    *)
(* integer, and lies in 1..3.                                              *)
(***************************************************************************)
C23_GlyphsRoundTheMean ==
    probe.op = "average" =>
        /\ 2 * probe.n * probe.avgStars <= 20 * probe.totalStars + probe.n
        /\ 20 * probe.totalStars + probe.n < 2 * probe.n * (probe.avgStars + 1)
        /\ probe.glyphs = (2 * probe.totalStars + probe.n) \div (2 * probe.n)
        /\ probe.glyphs \in 1..3

====
